---- MODULE Spec2Model ----
(***************************************************************************)
(* Invisible Population Detector (src/Desktop/ipd/app.py).                 *)
(*                                                                         *)
(* The Streamlit script is one top-to-bottom run per rerun: three loaders, *)
(* the sidebar filters, apply_filters, the KPI block, and the Hotspots and *)
(* Action Plan blocks.  Pandas columns are modelled as sequences of rows,  *)
(* float64 cells as exact rationals extended with NaN and +/-inf (the      *)
(* counts involved are far below 2^53, so the rational value and the       *)
(* float64 value fall on the same side of every threshold used).           *)
(*                                                                         *)
(* Spec is the script run as written, rerun after rerun, with the CSV      *)
(* files changing in between.  ScoreSpec is the code of the Hotspots and   *)
(* Action Plan tabs (lines 289-382) applied to filtered tables; chart and  *)
(* widget calls are not modelled.  st.cache_data is not modelled either: a *)
(* cache hit returns the table of an earlier call, which is the table the  *)
(* loader builds when it finds the same files again.                       *)
(***************************************************************************)
EXTENDS Integers, Sequences, FiniteSets

(***************************************************************************)
(* float64 cells                                                           *)
(***************************************************************************)
Abs(i) == IF i < 0 THEN -i ELSE i

RECURSIVE Gcd(_, _)
Gcd(a, b) == IF b = 0 THEN a ELSE Gcd(b, a % b)

NaN == [k |-> "nan", n |-> 0, d |-> 1]
PInf == [k |-> "inf", n |-> 1, d |-> 1]
NInf == [k |-> "inf", n |-> -1, d |-> 1]

\* the finite value n/d, d > 0, in lowest terms
Num(n, d) ==
    LET g == Gcd(Abs(n), d)
    IN  [k |-> "num", n |-> n \div g, d |-> d \div g]

FromInt(i) == Num(i, 1)

IsNum(x) == x.k = "num"
IsNaN(x) == x.k = "nan"

\* Series / Series: x/0 is +/-inf, 0/0 is NaN
Div(a, b) ==
    IF ~IsNum(a) \/ ~IsNum(b) THEN NaN
    ELSE IF b.n = 0
         THEN IF a.n = 0 THEN NaN ELSE IF a.n > 0 THEN PInf ELSE NInf
    ELSE IF b.n > 0 THEN Num(a.n * b.d, a.d * b.n)
    ELSE Num(-(a.n * b.d), a.d * (-b.n))

\* 1 - Series
OneMinus(x) ==
    IF IsNaN(x) THEN NaN
    ELSE IF x.k = "inf" THEN (IF x.n > 0 THEN NInf ELSE PInf)
    ELSE Num(x.d - x.n, x.d)

\* x < y and x > y on float64; every comparison with NaN is False
Lt(x, y) ==
    IF IsNaN(x) \/ IsNaN(y) THEN FALSE
    ELSE IF x.k = "inf" THEN x.n < 0 /\ ~(y.k = "inf" /\ y.n < 0)
    ELSE IF y.k = "inf" THEN y.n > 0
    ELSE x.n * y.d < y.n * x.d

Gt(x, y) == Lt(y, x)

Le(x, y) == ~IsNaN(x) /\ ~IsNaN(y) /\ ~Lt(y, x)

\* faulty variant: the clip is left out
Clip_Unclipped(x, lower, upper) == x

\* Series.clip(lower, upper): NaN stays NaN
Clip(x, lower, upper) ==
    IF IsNaN(x) THEN NaN
    ELSE IF Lt(x, lower) THEN lower
    ELSE IF Gt(x, upper) THEN upper
    ELSE x

\* DataFrame.fillna(0) on one cell
FillNa(x) == IF IsNaN(x) THEN FromInt(0) ELSE x

\* faulty variant: a zero denominator gives 0 instead of NaN
safe_div_Zero(a, b) == IF IsNum(b) /\ b.n = 0 THEN FromInt(0) ELSE Div(a, b)

\* np.where(b == 0, np.nan, a / b)
safe_div(a, b) == IF IsNum(b) /\ b.n = 0 THEN NaN ELSE Div(a, b)

(***************************************************************************)
(* program constants                                                       *)
(***************************************************************************)
ClipLower == FromInt(-1)
ClipUpper == FromInt(5)
BinLo == FromInt(-10)
BinLowMedium == Num(1, 10)
BinMediumHigh == Num(1, 5)
BinHi == FromInt(10)
VgsThreshold == Num(1, 5)
MpiThreshold == Num(1, 2)
BsiThreshold == Num(1, 2)
ActionPlanRows == 25
TopNMin == 5
TopNDefault == 20
TopNMax == 50

NoTier == "NaN"
OutreachLabel == "Mobile enrolment + outreach camps"
DemoDriveLabel == "Assisted demographic update drive (migration/churn)"
BioSupportLabel == "Biometric recapture support + assisted verification"
MonitorLabel == "Monitor (low risk)"

(***************************************************************************)
(* tables: a DataFrame is a sequence of rows                               *)
(***************************************************************************)
\* Python's str ordering on the labels that occur in the model
NameOrder == <<"Araria", "Bihar", "Ernakulam", "Kerala", "Patna">>

Rank(s) == CHOOSE i \in DOMAIN NameOrder : NameOrder[i] = s

KeyLess(a, b) ==
    \/ Rank(a[1]) < Rank(b[1])
    \/ a[1] = b[1] /\ Rank(a[2]) < Rank(b[2])

\* groupby(..., sort=True): the distinct keys in ascending order
RECURSIVE SortedKeys(_)
SortedKeys(K) ==
    IF K = {} THEN << >>
    ELSE LET m == CHOOSE x \in K : \A y \in K \ {x} : KeyLess(x, y)
         IN  <<m>> \o SortedKeys(K \ {m})

RECURSIVE SortedNames(_)
SortedNames(S) ==
    IF S = {} THEN << >>
    ELSE LET m == CHOOSE x \in S : \A y \in S \ {x} : Rank(x) < Rank(y)
         IN  <<m>> \o SortedNames(S \ {m})

\* Series.sum() of an integer column
RECURSIVE SumSeq(_)
SumSeq(s) == IF s = << >> THEN 0 ELSE Head(s) + SumSeq(Tail(s))

Range(s) == {s[i] : i \in DOMAIN s}


(***************************************************************************)
(* loaders                                                                 *)
(***************************************************************************)
\* a CSV cell of a numeric column
IntCell(v) == [k |-> "int", v |-> v]
FloatCell(tenths) == [k |-> "float", v |-> tenths]
TextCell == [k |-> "text", v |-> 0]
EmptyCell == [k |-> "empty", v |-> 0]

NaT == "NaT"

\* pd.to_datetime(..., errors="coerce", dayfirst=True) on the model's dates
ParseDate(s) ==
    IF s = "01-03-2025" THEN "2025-03-01"
    ELSE IF s = "15-03-2025" THEN "2025-03-15"
    ELSE IF s = "01-04-2025" THEN "2025-04-01"
    ELSE NaT

\* .dt.to_period("M").astype(str): a missing date becomes the string "NaT"
MonthOf(d) ==
    IF d = "2025-03-01" \/ d = "2025-03-15" THEN "2025-03"
    ELSE IF d = "2025-04-01" THEN "2025-04"
    ELSE "NaT"

\* pd.to_numeric(errors="coerce").fillna(0).astype(int): text and empty
\* cells become 0, a float is truncated toward zero, a sign is kept
Coerce(c) ==
    IF c.k = "int" THEN c.v
    ELSE IF c.k = "float"
         THEN IF c.v >= 0 THEN c.v \div 10 ELSE -((-c.v) \div 10)
    ELSE 0

\* pd.concat([...], ignore_index=True)
RECURSIVE Concat(_)
Concat(files) == IF files = << >> THEN << >> ELSE Head(files) \o Concat(Tail(files))

\* the date, numeric, total, month, state and district columns of one row
Normalize(r) ==
    LET cols == [i \in DOMAIN r.cells |-> Coerce(r.cells[i])]
        date == ParseDate(r.date)
    IN  [date |-> date,
         state |-> r.state,
         district |-> r.district,
         cols |-> cols,
         total |-> SumSeq(cols),
         month |-> MonthOf(date)]

NormalizeAll(raw) == [i \in DOMAIN raw |-> Normalize(raw[i])]

Loaded(rows) == [ok |-> TRUE, halt |-> "none", rows |-> rows]
Stopped(why) == [ok |-> FALSE, halt |-> why, rows |-> << >>]

\* read_csv(dtype={..., 'age_0_5': 'int32', ...}) raises ValueError on a
\* cell that is not an integer literal
ReadCsvInt32Ok(raw) ==
    \A i \in DOMAIN raw : \A j \in DOMAIN raw[i].cells : raw[i].cells[j].k = "int"

load_uidai_enrolment(files) ==
    IF files = << >> THEN Stopped("not_found")
    ELSE IF ~ReadCsvInt32Ok(Concat(files)) THEN Stopped("load_error")
    ELSE Loaded(NormalizeAll(Concat(files)))

load_uidai_demo(files) ==
    IF files = << >> THEN Stopped("not_found")
    ELSE Loaded(NormalizeAll(Concat(files)))

\* faulty variant: no check that the glob found a file
load_uidai_bio_NoFileCheck(files) == Loaded(NormalizeAll(Concat(files)))

load_uidai_bio(files) ==
    IF files = << >> THEN Stopped("not_found")
    ELSE Loaded(NormalizeAll(Concat(files)))

(***************************************************************************)
(* sidebar filters and KPI block                                           *)
(***************************************************************************)
All == "All"

\* faulty variant: the state filter is skipped
apply_filters_MonthOnly(df, month, state) ==
    LET MonthIs(r) == r.month = month
    IN  IF month # All THEN SelectSeq(df, MonthIs) ELSE df

\* apply_filters(df) under the selected month and state
apply_filters(df, month, state) ==
    LET MonthIs(r) == r.month = month
        StateIs(r) == r.state = state
        out0 == df
        out1 == IF month # All THEN SelectSeq(out0, MonthIs) ELSE out0
        out2 == IF state # All THEN SelectSeq(out1, StateIs) ELSE out1
    IN  out2

\* df[col].sum() over the total column
TotalOf(t) == SumSeq([i \in DOMAIN t |-> t[i].total])

\* groupby("date").agg(total=sum).dropna(): one row per non-null date
Daily(t) ==
    LET dates == {t[i].date : i \in DOMAIN t} \ {NaT}
    IN  {[date |-> d,
          total |-> SumSeq([i \in DOMAIN t |-> IF t[i].date = d THEN t[i].total ELSE 0])] :
            d \in dates}

\* lines 222-229: the first row after sort_values("total", ascending=False);
\* tied dates come in any order
DailySpike(t) ==
    IF Daily(t) = {} THEN {[bound |-> TRUE, date |-> "N/A", val |-> 0]}
    ELSE {[bound |-> TRUE, date |-> r.date, val |-> r.total] :
            r \in {x \in Daily(t) : \A y \in Daily(t) : y.total <= x.total}}

(***************************************************************************)
(* Hotspots block: the scored district table                               *)
(***************************************************************************)
\* enrol_f.groupby(["state", "district"]).agg(observed_enrolments=sum)
GroupDistricts(t) ==
    LET keys == SortedKeys({<<t[i].state, t[i].district>> : i \in DOMAIN t})
    IN  [j \in DOMAIN keys |->
            [state |-> keys[j][1], district |-> keys[j][2],
             observed_enrolments |->
                SumSeq([i \in DOMAIN t |->
                    IF t[i].state = keys[j][1] /\ t[i].district = keys[j][2]
                    THEN t[i].total ELSE 0])]]

\* faulty variant: state_total is summed over the whole table, not per state
StateStats_Ungrouped(g) ==
    LET names == SortedNames({g[i].state : i \in DOMAIN g})
    IN  [j \in DOMAIN names |->
            [state |-> names[j],
             state_total |-> SumSeq([i \in DOMAIN g |-> g[i].observed_enrolments]),
             num_districts |->
                Cardinality({g[i].district : i \in {x \in DOMAIN g : g[x].state = names[j]}})]]

\* dist.groupby("state").agg(state_total=sum, num_districts=nunique)
StateStats(g) ==
    LET names == SortedNames({g[i].state : i \in DOMAIN g})
    IN  [j \in DOMAIN names |->
            [state |-> names[j],
             state_total |->
                SumSeq([i \in DOMAIN g |->
                    IF g[i].state = names[j] THEN g[i].observed_enrolments ELSE 0]),
             num_districts |->
                Cardinality({g[i].district : i \in {x \in DOMAIN g : g[x].state = names[j]}})]]

\* d_demo / d_bio: groupby(["state", "district"]).agg(sum)
GroupUpdates(t) ==
    LET keys == SortedKeys({<<t[i].state, t[i].district>> : i \in DOMAIN t})
    IN  [j \in DOMAIN keys |->
            [state |-> keys[j][1], district |-> keys[j][2],
             updates |->
                SumSeq([i \in DOMAIN t |->
                    IF t[i].state = keys[j][1] /\ t[i].district = keys[j][2]
                    THEN t[i].total ELSE 0])]]

\* state_stats, the left merge on "state", expected_enrol_per_district and
\* the clipped VGS_proxy (lines 306-314)
AddVGS(g) ==
    LET st == StateStats(g)
    IN  [j \in DOMAIN g |->
            LET stats == st[CHOOSE i \in DOMAIN st : st[i].state = g[j].state]
                expected == Div(FromInt(stats.state_total), FromInt(stats.num_districts))
                vgs == OneMinus(Div(FromInt(g[j].observed_enrolments), expected))
            IN  [state |-> g[j].state,
                 district |-> g[j].district,
                 observed_enrolments |-> g[j].observed_enrolments,
                 state_total |-> stats.state_total,
                 num_districts |-> stats.num_districts,
                 expected_enrol_per_district |-> expected,
                 VGS_proxy |-> Clip(vgs, ClipLower, ClipUpper)]]

\* faulty variant: the merge key is the district alone
MergedUpdates_DistrictOnly(u, s, d) ==
    LET hit == {i \in DOMAIN u : u[i].district = d}
    IN  IF hit = {} THEN NaN ELSE FromInt(u[CHOOSE i \in hit : TRUE].updates)

\* the cell a left merge on ["state", "district"] puts in the new column
MergedUpdates(u, s, d) ==
    LET hit == {i \in DOMAIN u : u[i].state = s /\ u[i].district = d}
    IN  IF hit = {} THEN NaN ELSE FromInt(u[CHOOSE i \in hit : TRUE].updates)

\* dist.merge(d_demo, how="left").merge(d_bio, how="left") (line 320)
MergeUpdates(t, d_demo, d_bio) ==
    [j \in DOMAIN t |->
        [state |-> t[j].state,
         district |-> t[j].district,
         observed_enrolments |-> t[j].observed_enrolments,
         state_total |-> t[j].state_total,
         num_districts |-> t[j].num_districts,
         expected_enrol_per_district |-> t[j].expected_enrol_per_district,
         VGS_proxy |-> t[j].VGS_proxy,
         demo |-> MergedUpdates(d_demo, t[j].state, t[j].district),
         bio |-> MergedUpdates(d_bio, t[j].state, t[j].district)]]

\* dist.fillna(0) (line 321): every float column the frame has at that point
FillNaFrame(t) ==
    [j \in DOMAIN t |->
        [t[j] EXCEPT !.expected_enrol_per_district = FillNa(@),
                     !.VGS_proxy = FillNa(@),
                     !.demo = FillNa(@),
                     !.bio = FillNa(@)]]

\* faulty variant: pd.cut(..., right=False), bins closed on the left
Cut_LeftClosed(x) ==
    IF Le(BinLo, x) /\ Lt(x, BinLowMedium) THEN "Low"
    ELSE IF Le(BinLowMedium, x) /\ Lt(x, BinMediumHigh) THEN "Medium"
    ELSE IF Le(BinMediumHigh, x) /\ Lt(x, BinHi) THEN "High"
    ELSE NoTier

\* pd.cut(x, bins=[-10, 0.10, 0.20, 10], labels=["Low", "Medium", "High"])
Cut(x) ==
    IF Gt(x, BinLo) /\ Le(x, BinLowMedium) THEN "Low"
    ELSE IF Gt(x, BinLowMedium) /\ Le(x, BinMediumHigh) THEN "Medium"
    ELSE IF Gt(x, BinMediumHigh) /\ Le(x, BinHi) THEN "High"
    ELSE NoTier

\* the MPI, BSI and risk columns (lines 323-327)
AddRatios(t) ==
    [j \in DOMAIN t |->
        [state |-> t[j].state,
         district |-> t[j].district,
         observed_enrolments |-> t[j].observed_enrolments,
         state_total |-> t[j].state_total,
         num_districts |-> t[j].num_districts,
         expected_enrol_per_district |-> t[j].expected_enrol_per_district,
         VGS_proxy |-> t[j].VGS_proxy,
         demo |-> t[j].demo,
         bio |-> t[j].bio,
         MPI |-> safe_div(t[j].demo, FromInt(t[j].observed_enrolments)),
         BSI |-> safe_div(t[j].bio, FromInt(t[j].observed_enrolments)),
         risk |-> Cut(t[j].VGS_proxy)]]

\* the orders sort_values("VGS_proxy", ascending=False) can return: the
\* default quicksort is not stable, so tied rows come in any order
Perms(n) == {p \in [1..n -> 1..n] : \A i, j \in 1..n : i # j => p[i] # p[j]}

SortDescByVGS(t) ==
    {[i \in DOMAIN t |-> t[p[i]]] :
        p \in {q \in Perms(Len(t)) :
                \A i \in 1..(Len(t) - 1) : ~Lt(t[q[i]].VGS_proxy, t[q[i + 1]].VGS_proxy)}}

\* DataFrame.head(n)
HeadRows(t, n) == IF Len(t) <= n THEN t ELSE SubSeq(t, 1, n)

\* faulty variant: the BSI check runs before the MPI check
recommend_BioFirst(row) ==
    LET a0 == << >>
        a1 == IF Gt(row.VGS_proxy, VgsThreshold) THEN Append(a0, OutreachLabel) ELSE a0
        a2 == IF Gt(row.BSI, BsiThreshold) THEN Append(a1, BioSupportLabel) ELSE a1
        a3 == IF Gt(row.MPI, MpiThreshold) THEN Append(a2, DemoDriveLabel) ELSE a2
    IN  IF a3 = << >> THEN Append(a3, MonitorLabel) ELSE a3

\* recommend(row)
recommend(row) ==
    LET a0 == << >>
        a1 == IF Gt(row.VGS_proxy, VgsThreshold) THEN Append(a0, OutreachLabel) ELSE a0
        a2 == IF Gt(row.MPI, MpiThreshold) THEN Append(a1, DemoDriveLabel) ELSE a1
        a3 == IF Gt(row.BSI, BsiThreshold) THEN Append(a2, BioSupportLabel) ELSE a2
    IN  IF a3 = << >> THEN Append(a3, MonitorLabel) ELSE a3

\* dist_sorted.apply(recommend, axis=1) (line 382)
WithRecommendation(t) ==
    [j \in DOMAIN t |->
        [state |-> t[j].state,
         district |-> t[j].district,
         observed_enrolments |-> t[j].observed_enrolments,
         state_total |-> t[j].state_total,
         num_districts |-> t[j].num_districts,
         expected_enrol_per_district |-> t[j].expected_enrol_per_district,
         VGS_proxy |-> t[j].VGS_proxy,
         demo |-> t[j].demo,
         bio |-> t[j].bio,
         MPI |-> t[j].MPI,
         BSI |-> t[j].BSI,
         risk |-> t[j].risk,
         recommended_action |-> recommend(t[j])]]

(***************************************************************************)
(* inputs                                                                  *)
(***************************************************************************)
MaxEnrolRows == 2
MaxUpdateRows == 1
MaxScoreRows == 2
MaxScoreUpdateRows == 1

RawRow(date, state, district, cells) ==
    [date |-> date, state |-> state, district |-> district, cells |-> cells]

\* rows an enrolment CSV can hold
EnrolRawRows ==
    {RawRow("01-03-2025", "Bihar", "Patna", <<IntCell(1), IntCell(0), IntCell(2)>>),
     RawRow("15-03-2025", "Kerala", "Ernakulam", <<IntCell(0), IntCell(1), IntCell(0)>>),
     RawRow("01-04-2025", "Bihar", "Araria", <<IntCell(2), IntCell(2), IntCell(0)>>),
     RawRow("31-31-2025", "Kerala", "Ernakulam", <<IntCell(1), IntCell(1), IntCell(1)>>),
     RawRow("01-03-2025", "Bihar", "Patna", <<IntCell(1), TextCell, IntCell(0)>>),
     RawRow("01-04-2025", "Bihar", "Patna", <<IntCell(-3), IntCell(1), IntCell(0)>>)}

\* rows a demographic CSV can hold (two columns whose names contain "age")
DemoRawRows ==
    {RawRow("01-03-2025", "Bihar", "Patna", <<IntCell(2), TextCell>>),
     RawRow("01-04-2025", "Kerala", "Ernakulam", <<FloatCell(25), EmptyCell>>)}

\* rows a biometric CSV can hold (two columns whose names contain "bio" or "age")
BioRawRows ==
    {RawRow("01-03-2025", "Bihar", "Araria", <<IntCell(1), IntCell(1)>>),
     RawRow("bad date", "Kerala", "Ernakulam", <<EmptyCell, FloatCell(-15)>>)}

Kinds == {"enrol", "demo", "bio"}

RawRowsOf(k) ==
    IF k = "enrol" THEN EnrolRawRows ELSE IF k = "demo" THEN DemoRawRows ELSE BioRawRows

MaxRowsOf(k) == IF k = "enrol" THEN MaxEnrolRows ELSE MaxUpdateRows

\* a filtered, normalized row as the scoring block reads it
ScoreRow(state, district, total) ==
    [date |-> "2025-03-01", state |-> state, district |-> district,
     cols |-> <<total>>, total |-> total, month |-> "2025-03"]

EnrolTotals == {-1, 0, 1, 2, 3, 9, 11}

ScoreEnrolRows ==
    {ScoreRow(k[1], k[2], v) :
        k \in {<<"Bihar", "Araria">>, <<"Bihar", "Patna">>, <<"Kerala", "Araria">>},
        v \in EnrolTotals}

ScoreDemoRows ==
    {ScoreRow("Bihar", "Araria", 3), ScoreRow("Kerala", "Patna", 1)}

ScoreBioRows ==
    {ScoreRow("Bihar", "Araria", 1)}

SeqsUpTo(S, n) == UNION {[1..m -> S] : m \in 0..n}

(***************************************************************************)
(* state                                                                   *)
(***************************************************************************)
VARIABLES
    disk,         \* the CSV files of each kind found under BASE_DIR
    session,      \* init_session(): the cached lazy-loading flags
    pc,           \* the statement the script run is at
    halt,         \* why the run ended
    found,        \* per kind, what this run's glob returned
    enrol, demo, bio,
    month_sel, state_sel,
    enrol_f, demo_f, bio_f,
    kpi,          \* total_enrol, total_demo, total_bio
    spike,        \* spike_date, spike_val
    dist, hotspots, dist_sorted

vars == <<disk, session, pc, halt, found, enrol, demo, bio, month_sel, state_sel,
          enrol_f, demo_f, bio_f, kpi, spike, dist, hotspots, dist_sorted>>

\* a name of the script's namespace that is not (or no longer) bound
Unbound == [bound |-> FALSE, rows |-> << >>]
Bound(t) == [bound |-> TRUE, rows |-> t]
NoSelection == "unset"
NoKpi == [bound |-> FALSE, total_enrol |-> 0, total_demo |-> 0, total_bio |-> 0]
NoSpike == [bound |-> FALSE, date |-> "N/A", val |-> 0]
NotGlobbed == [k \in Kinds |-> "unset"]

FreshNamespace ==
    /\ halt = "none"
    /\ found = NotGlobbed
    /\ enrol = Unbound /\ demo = Unbound /\ bio = Unbound
    /\ month_sel = NoSelection /\ state_sel = NoSelection
    /\ enrol_f = Unbound /\ demo_f = Unbound /\ bio_f = Unbound
    /\ kpi = NoKpi /\ spike = NoSpike
    /\ dist = Unbound /\ hotspots = Unbound /\ dist_sorted = Unbound

Init ==
    /\ disk = [k \in Kinds |-> << >>]
    /\ session = [enrol_loaded |-> FALSE, demo_loaded |-> FALSE, bio_loaded |-> FALSE]
    /\ pc = "idle"
    /\ FreshNamespace

(***************************************************************************)
(* the files under BASE_DIR change between runs                            *)
(***************************************************************************)
TotalRows(files) == Len(Concat(files))

RemoveFiles(k) ==
    /\ pc = "idle"
    /\ disk[k] # << >>
    /\ disk' = [disk EXCEPT ![k] = << >>]
    /\ UNCHANGED <<session, pc, halt, found, enrol, demo, bio, month_sel, state_sel,
                   enrol_f, demo_f, bio_f, kpi, spike, dist, hotspots, dist_sorted>>

CreateFile(k) ==
    /\ pc = "idle"
    /\ disk[k] = << >>
    /\ disk' = [disk EXCEPT ![k] = << << >> >>]
    /\ UNCHANGED <<session, pc, halt, found, enrol, demo, bio, month_sel, state_sel,
                   enrol_f, demo_f, bio_f, kpi, spike, dist, hotspots, dist_sorted>>

AppendRow(k) ==
    /\ pc = "idle"
    /\ disk[k] # << >>
    /\ TotalRows(disk[k]) < MaxRowsOf(k)
    /\ \E r \in RawRowsOf(k) :
          disk' = [disk EXCEPT ![k] = <<Append(disk[k][1], r)>>]
    /\ UNCHANGED <<session, pc, halt, found, enrol, demo, bio, month_sel, state_sel,
                   enrol_f, demo_f, bio_f, kpi, spike, dist, hotspots, dist_sorted>>

(***************************************************************************)
(* one script run                                                          *)
(***************************************************************************)
StartRun ==
    /\ pc = "idle"
    /\ pc' = "load_enrol"
    /\ UNCHANGED <<disk, session, halt, found, enrol, demo, bio, month_sel, state_sel,
                   enrol_f, demo_f, bio_f, kpi, spike, dist, hotspots, dist_sorted>>

Globbed(k) == IF disk[k] = << >> THEN "none" ELSE "some"

\* lines 157-162
LoadEnrol ==
    /\ pc = "load_enrol"
    /\ LET r == load_uidai_enrolment(disk.enrol)
       IN  /\ found' = [found EXCEPT !.enrol = Globbed("enrol")]
           /\ IF r.ok
              THEN /\ enrol' = Bound(r.rows)
                   /\ session' = IF ~session.enrol_loaded
                                 THEN [session EXCEPT !.enrol_loaded = TRUE]
                                 ELSE session
                   /\ pc' = "load_demo"
                   /\ halt' = halt
              ELSE /\ pc' = "halted"
                   /\ halt' = r.halt
                   /\ UNCHANGED <<enrol, session>>
    /\ UNCHANGED <<disk, demo, bio, month_sel, state_sel, enrol_f, demo_f, bio_f,
                   kpi, spike, dist, hotspots, dist_sorted>>

\* lines 164-169
LoadDemo ==
    /\ pc = "load_demo"
    /\ LET r == load_uidai_demo(disk.demo)
       IN  /\ found' = [found EXCEPT !.demo = Globbed("demo")]
           /\ IF r.ok
              THEN /\ demo' = Bound(r.rows)
                   /\ session' = IF ~session.demo_loaded
                                 THEN [session EXCEPT !.demo_loaded = TRUE]
                                 ELSE session
                   /\ pc' = "load_bio"
                   /\ halt' = halt
              ELSE /\ pc' = "halted"
                   /\ halt' = r.halt
                   /\ UNCHANGED <<demo, session>>
    /\ UNCHANGED <<disk, enrol, bio, month_sel, state_sel, enrol_f, demo_f, bio_f,
                   kpi, spike, dist, hotspots, dist_sorted>>

\* lines 171-176
LoadBio ==
    /\ pc = "load_bio"
    /\ LET r == load_uidai_bio(disk.bio)
       IN  /\ found' = [found EXCEPT !.bio = Globbed("bio")]
           /\ IF r.ok
              THEN /\ bio' = Bound(r.rows)
                   /\ session' = IF ~session.bio_loaded
                                 THEN [session EXCEPT !.bio_loaded = TRUE]
                                 ELSE session
                   /\ pc' = "sidebar"
                   /\ halt' = halt
              ELSE /\ pc' = "halted"
                   /\ halt' = r.halt
                   /\ UNCHANGED <<bio, session>>
    /\ UNCHANGED <<disk, enrol, demo, month_sel, state_sel, enrol_f, demo_f, bio_f,
                   kpi, spike, dist, hotspots, dist_sorted>>

\* lines 191-195: the two selectboxes
SidebarFilters ==
    /\ pc = "sidebar"
    /\ \E m \in {All} \cup {enrol.rows[i].month : i \in DOMAIN enrol.rows},
          s \in {All} \cup {enrol.rows[i].state : i \in DOMAIN enrol.rows} :
          /\ month_sel' = m
          /\ state_sel' = s
    /\ pc' = "filter"
    /\ UNCHANGED <<disk, session, halt, found, enrol, demo, bio, enrol_f, demo_f, bio_f,
                   kpi, spike, dist, hotspots, dist_sorted>>

\* lines 205-207
ApplyFilters ==
    /\ pc = "filter"
    /\ enrol_f' = Bound(apply_filters(enrol.rows, month_sel, state_sel))
    /\ demo_f' = Bound(apply_filters(demo.rows, month_sel, state_sel))
    /\ bio_f' = Bound(apply_filters(bio.rows, month_sel, state_sel))
    /\ pc' = "cleanup"
    /\ UNCHANGED <<disk, session, halt, found, enrol, demo, bio, month_sel, state_sel,
                   kpi, spike, dist, hotspots, dist_sorted>>

\* line 210: del enrol, demo, bio
Cleanup ==
    /\ pc = "cleanup"
    /\ enrol' = Unbound /\ demo' = Unbound /\ bio' = Unbound
    /\ pc' = "kpi"
    /\ UNCHANGED <<disk, session, halt, found, month_sel, state_sel, enrol_f, demo_f,
                   bio_f, kpi, spike, dist, hotspots, dist_sorted>>

\* lines 216-218
KpiTotals ==
    /\ pc = "kpi"
    /\ kpi' = [bound |-> TRUE,
               total_enrol |-> TotalOf(enrol_f.rows),
               total_demo |-> TotalOf(demo_f.rows),
               total_bio |-> TotalOf(bio_f.rows)]
    /\ pc' = "spike"
    /\ UNCHANGED <<disk, session, halt, found, enrol, demo, bio, month_sel, state_sel,
                   enrol_f, demo_f, bio_f, spike, dist, hotspots, dist_sorted>>

\* lines 221-229: reading the name enrol after the del raises NameError
PeakSpikeDay ==
    /\ pc = "spike"
    /\ IF ~enrol.bound
       THEN /\ pc' = "halted"
            /\ halt' = "NameError"
            /\ spike' = spike
       ELSE /\ pc' = "tab1"
            /\ halt' = halt
            /\ spike' \in DailySpike(enrol.rows)
    /\ UNCHANGED <<disk, session, found, enrol, demo, bio, month_sel, state_sel,
                   enrol_f, demo_f, bio_f, kpi, dist, hotspots, dist_sorted>>

\* the run is over; the next rerun starts from an empty namespace
EndRun ==
    /\ pc = "halted"
    /\ pc' = "idle"
    /\ halt' = "none"
    /\ found' = NotGlobbed
    /\ enrol' = Unbound /\ demo' = Unbound /\ bio' = Unbound
    /\ month_sel' = NoSelection /\ state_sel' = NoSelection
    /\ enrol_f' = Unbound /\ demo_f' = Unbound /\ bio_f' = Unbound
    /\ kpi' = NoKpi /\ spike' = NoSpike
    /\ dist' = Unbound /\ hotspots' = Unbound /\ dist_sorted' = Unbound
    /\ UNCHANGED <<disk, session>>

Next ==
    \/ \E k \in Kinds : RemoveFiles(k)
    \/ \E k \in Kinds : CreateFile(k)
    \/ \E k \in Kinds : AppendRow(k)
    \/ StartRun
    \/ LoadEnrol
    \/ LoadDemo
    \/ LoadBio
    \/ SidebarFilters
    \/ ApplyFilters
    \/ Cleanup
    \/ KpiTotals
    \/ PeakSpikeDay
    \/ EndRun

Spec == Init /\ [][Next]_vars

(***************************************************************************)
(* the Hotspots and Action Plan blocks, run on filtered tables             *)
(***************************************************************************)
ScoreInit ==
    /\ disk = [k \in Kinds |-> << >>]
    /\ session = [enrol_loaded |-> TRUE, demo_loaded |-> TRUE, bio_loaded |-> TRUE]
    /\ pc = "tab2"
    /\ halt = "none"
    /\ found = [k \in Kinds |-> "some"]
    /\ enrol = Unbound /\ demo = Unbound /\ bio = Unbound
    /\ month_sel = All /\ state_sel = All
    /\ enrol_f \in {Bound(t) : t \in SeqsUpTo(ScoreEnrolRows, MaxScoreRows)}
    /\ demo_f \in {Bound(t) : t \in SeqsUpTo(ScoreDemoRows, MaxScoreUpdateRows)}
    /\ bio_f \in {Bound(t) : t \in SeqsUpTo(ScoreBioRows, MaxScoreUpdateRows)}
    /\ kpi = [bound |-> TRUE,
              total_enrol |-> TotalOf(enrol_f.rows),
              total_demo |-> TotalOf(demo_f.rows),
              total_bio |-> TotalOf(bio_f.rows)]
    /\ spike = NoSpike
    /\ dist = Unbound /\ hotspots = Unbound /\ dist_sorted = Unbound

\* lines 302-314
Tab2VisibilityGap ==
    /\ pc = "tab2"
    /\ dist' = Bound(AddVGS(GroupDistricts(enrol_f.rows)))
    /\ pc' = "tab2_ratios"
    /\ UNCHANGED <<disk, session, halt, found, enrol, demo, bio, month_sel, state_sel,
                   enrol_f, demo_f, bio_f, kpi, spike, hotspots, dist_sorted>>

\* lines 317-327
Tab2Ratios ==
    /\ pc = "tab2_ratios"
    /\ dist' = Bound(AddRatios(FillNaFrame(
                  MergeUpdates(dist.rows, GroupUpdates(demo_f.rows), GroupUpdates(bio_f.rows)))))
    /\ pc' = "tab2_hotspots"
    /\ UNCHANGED <<disk, session, halt, found, enrol, demo, bio, month_sel, state_sel,
                   enrol_f, demo_f, bio_f, kpi, spike, hotspots, dist_sorted>>

\* lines 329-330
Tab2Hotspots ==
    /\ pc = "tab2_hotspots"
    /\ \E topN \in {TopNMin, TopNDefault, TopNMax}, sorted \in SortDescByVGS(dist.rows) :
          hotspots' = Bound(HeadRows(sorted, topN))
    /\ pc' = "tab3"
    /\ UNCHANGED <<disk, session, halt, found, enrol, demo, bio, month_sel, state_sel,
                   enrol_f, demo_f, bio_f, kpi, spike, dist, dist_sorted>>

\* lines 368-382
Tab3ActionPlan ==
    /\ pc = "tab3"
    /\ \E sorted \in SortDescByVGS(dist.rows) :
          dist_sorted' = Bound(WithRecommendation(HeadRows(sorted, ActionPlanRows)))
    /\ pc' = "done"
    /\ UNCHANGED <<disk, session, halt, found, enrol, demo, bio, month_sel, state_sel,
                   enrol_f, demo_f, bio_f, kpi, spike, dist, hotspots>>

ScoreNext ==
    \/ Tab2VisibilityGap
    \/ Tab2Ratios
    \/ Tab2Hotspots
    \/ Tab3ActionPlan

ScoreSpec == ScoreInit /\ [][ScoreNext]_vars

(***************************************************************************)
(* properties                                                              *)
(***************************************************************************)
\* dist carries every column of the scored table (line 327 has run)
Scored == pc \in {"tab2_hotspots", "tab3", "done"}

TableRows(t) == IF t.bound THEN Range(t.rows) ELSE {}

\* n/d lies in [lo, hi], for integers lo and hi
Within(x, lo, hi) == IsNum(x) /\ lo * x.d <= x.n /\ x.n <= hi * x.d

\* C1: once the risk column is added, every row of the scored district table,
\* of the hotspot table and of the action-plan table has a finite VGS_proxy
\* with -1 <= VGS_proxy <= 5, also where observed and expected are both 0.
C1_VGSInRange ==
    Scored =>
        \A r \in TableRows(dist) \cup TableRows(hotspots) \cup TableRows(dist_sorted) :
            Within(r.VGS_proxy, -1, 5)

C1_Witness ==
    /\ pc = "done"
    /\ \E r \in TableRows(dist) :
          r.observed_enrolments = 0 /\ r.state_total = 0 /\ r.num_districts = 2
    /\ \E r \in TableRows(dist) : r.VGS_proxy = FromInt(0)

\* C2: every scored row has exactly one of the tiers Low, Medium, High, and
\* the tier is Low iff VGS <= 1/10, Medium iff 1/10 < VGS <= 1/5, High iff
\* VGS > 1/5 (so 1/10 is Low and 1/5 is Medium).
C2_RiskTier ==
    Scored =>
        \A r \in TableRows(dist) :
            LET v == r.VGS_proxy
            IN  /\ IsNum(v)
                /\ r.risk \in {"Low", "Medium", "High"}
                /\ (r.risk = "Low") <=> (10 * v.n <= v.d)
                /\ (r.risk = "Medium") <=> (10 * v.n > v.d /\ 5 * v.n <= v.d)
                /\ (r.risk = "High") <=> (5 * v.n > v.d)

C2_Witness ==
    /\ Scored
    /\ \E r \in TableRows(dist) : r.VGS_proxy = Num(1, 10) /\ r.risk = "Low"

LabelIndex(l) ==
    IF l = OutreachLabel THEN 1
    ELSE IF l = DemoDriveLabel THEN 2
    ELSE IF l = BioSupportLabel THEN 3
    ELSE 4

Exceeds(x, n, d) == IsNum(x) /\ d * x.n > n * x.d

\* C3: in the action-plan table each row's labels are exactly the labels of
\* the predicates VGS > 0.20, MPI > 0.50, BSI > 0.50 that hold, in that
\* order and without repetition, and "Monitor (low risk)" appears iff none
\* holds, and then alone.
C3_RecommendOrder ==
    \A r \in TableRows(dist_sorted) :
        LET a == r.recommended_action
            none == /\ ~Exceeds(r.VGS_proxy, 1, 5)
                    /\ ~Exceeds(r.MPI, 1, 2)
                    /\ ~Exceeds(r.BSI, 1, 2)
        IN  /\ (OutreachLabel \in Range(a)) <=> Exceeds(r.VGS_proxy, 1, 5)
            /\ (DemoDriveLabel \in Range(a)) <=> Exceeds(r.MPI, 1, 2)
            /\ (BioSupportLabel \in Range(a)) <=> Exceeds(r.BSI, 1, 2)
            /\ (MonitorLabel \in Range(a)) <=> none
            /\ none => a = <<MonitorLabel>>
            /\ \A i, j \in DOMAIN a : i < j => LabelIndex(a[i]) < LabelIndex(a[j])
            /\ Range(a) \subseteq {OutreachLabel, DemoDriveLabel, BioSupportLabel, MonitorLabel}

C3_Witness ==
    /\ pc = "done"
    /\ \E r \in TableRows(dist_sorted) : Len(r.recommended_action) = 3
    /\ \E r \in TableRows(dist_sorted) : r.recommended_action = <<MonitorLabel>>

\* C4: a scored row with observed_enrolments = 0 has MPI = NaN and BSI = NaN
\* whatever its demo and bio counts; the descending sort by VGS_proxy still
\* returns a table, the row is in the hotspot and action-plan tables with
\* MPI and BSI still NaN, and it gets neither the MPI nor the BSI label.
C4_ZeroEnrolmentUndefined ==
    /\ Scored =>
          /\ SortDescByVGS(dist.rows) # {}
          /\ \A r \in TableRows(dist) :
                r.observed_enrolments = 0 => IsNaN(r.MPI) /\ IsNaN(r.BSI)
    /\ \A t \in {hotspots, dist_sorted} :
          t.bound =>
             /\ Len(t.rows) = Len(dist.rows)
             /\ \A r \in TableRows(t) :
                   r.observed_enrolments = 0 => IsNaN(r.MPI) /\ IsNaN(r.BSI)
    /\ \A r \in TableRows(dist_sorted) :
          r.observed_enrolments = 0 =>
             /\ DemoDriveLabel \notin Range(r.recommended_action)
             /\ BioSupportLabel \notin Range(r.recommended_action)

C4_Witness ==
    /\ pc = "done"
    /\ \E r \in TableRows(dist_sorted) :
          /\ r.observed_enrolments = 0
          /\ Exceeds(r.demo, 0, 1)
          /\ Exceeds(r.bio, 0, 1)
          /\ IsNaN(r.MPI)

KeysOf(rows) == {<<rows[i].state, rows[i].district>> : i \in DOMAIN rows}

\* C9: for every state of the scored table the observed_enrolments of its
\* rows add up to the state_total on each of them, num_districts is the
\* number of distinct districts of that state in the filtered enrolment
\* table and is at least 1, and expected_enrol_per_district is
\* state_total / num_districts.
C9_StateAggregates ==
    dist.bound =>
        \A r \in TableRows(dist) :
            LET e == r.expected_enrol_per_district
            IN  /\ r.state_total =
                      SumSeq([i \in DOMAIN dist.rows |->
                          IF dist.rows[i].state = r.state
                          THEN dist.rows[i].observed_enrolments ELSE 0])
                /\ r.num_districts =
                      Cardinality({k \in KeysOf(enrol_f.rows) : k[1] = r.state})
                /\ r.num_districts >= 1
                /\ IsNum(e)
                /\ e.n * r.num_districts = r.state_total * e.d

C9_Witness ==
    /\ Scored
    /\ \E r \in TableRows(dist) :
          /\ r.num_districts = 2
          /\ r.observed_enrolments # r.state_total
          /\ r.state_total # 0
          /\ r.expected_enrol_per_district.d = 2

\* C10: the scored table has one row for each (state, district) pair of the
\* filtered enrolment table and no other row; a pair found only in the
\* filtered demographic or biometric table has no row, and a row without
\* demographic (biometric) rows has demo = 0 (bio = 0), never NaN.
C10_OneRowPerEnrolmentPair ==
    dist.bound =>
        /\ KeysOf(dist.rows) = KeysOf(enrol_f.rows)
        /\ Len(dist.rows) = Cardinality(KeysOf(enrol_f.rows))
        /\ Scored =>
              \A r \in TableRows(dist) :
                  /\ IsNum(r.demo) /\ IsNum(r.bio)
                  /\ <<r.state, r.district>> \notin KeysOf(demo_f.rows) => r.demo = FromInt(0)
                  /\ <<r.state, r.district>> \notin KeysOf(bio_f.rows) => r.bio = FromInt(0)

C10_Witness ==
    /\ pc = "done"
    /\ KeysOf(demo_f.rows) \ KeysOf(enrol_f.rows) # {}
    /\ \E r \in TableRows(dist) : r.demo = FromInt(0) /\ Exceeds(r.bio, 0, 1)
    /\ Len(dist.rows) = 2

\* C5: in a run whose glob found no file of some kind, the run has stopped
\* in the load block with the "files not found" error and no selection,
\* filtered table, KPI, spike or scored table exists, whatever the session
\* flags are.
C5_MissingSourceStopsRun ==
    \A k \in Kinds :
        found[k] = "none" =>
            /\ pc = "halted"
            /\ halt = "not_found"
            /\ month_sel = NoSelection /\ state_sel = NoSelection
            /\ ~enrol_f.bound /\ ~demo_f.bound /\ ~bio_f.bound
            /\ ~kpi.bound /\ ~spike.bound
            /\ ~dist.bound /\ ~hotspots.bound /\ ~dist_sorted.bound

C5_Witness ==
    /\ found.bio = "none"
    /\ session.bio_loaded
    /\ enrol.bound /\ demo.bound
    /\ pc = "halted"

\* C6: the peak-spike-day step never fails: run on the unfiltered enrolment
\* table it binds spike_date and spike_val to the date with the largest
\* summed total among the rows with a date, or to "N/A" and 0 when no row
\* has a date.
C6_PeakSpikeNeverFails ==
    [][pc = "spike" =>
          /\ pc' # "halted"
          /\ spike'.bound
          /\ spike' \in DailySpike(load_uidai_enrolment(disk.enrol).rows)]_vars

\* the rows apply_filters is to return: those of t, in order, whose month is
\* the selected month (any month under "All") and whose state is the
\* selected state (any state under "All")
IsFiltered(out, t, month, state) ==
    LET idx == {i \in DOMAIN t :
                  /\ month = All \/ t[i].month = month
                  /\ state = All \/ t[i].state = state}
    IN  /\ Len(out) = Cardinality(idx)
        /\ \A i \in idx : out[Cardinality({j \in idx : j <= i})] = t[i]

\* C7: the apply_filters step binds enrol_f, demo_f and bio_f to exactly the
\* matching rows of enrol, demo and bio, in their original order, and leaves
\* enrol, demo and bio as they were.
C7_ApplyFiltersFrame ==
    [][pc = "filter" =>
          /\ enrol' = enrol /\ demo' = demo /\ bio' = bio
          /\ enrol_f'.bound /\ demo_f'.bound /\ bio_f'.bound
          /\ IsFiltered(enrol_f'.rows, enrol.rows, month_sel, state_sel)
          /\ IsFiltered(demo_f'.rows, demo.rows, month_sel, state_sel)
          /\ IsFiltered(bio_f'.rows, bio.rows, month_sel, state_sel)]_vars

C7_Witness ==
    /\ pc = "cleanup"
    /\ month_sel # All /\ state_sel # All
    /\ Len(enrol.rows) = 2 /\ Len(enrol_f.rows) = 1
    /\ enrol_f.rows[1] = enrol.rows[2]
    /\ Len(demo.rows) = 1 /\ demo_f.rows = << >>

TableOf(k) == IF k = "enrol" THEN enrol ELSE IF k = "demo" THEN demo ELSE bio

\* C8: whenever files of a kind were found, the load did not abort, and the
\* loaded table keeps every raw row, each with a total >= 0 that is the sum
\* of its numeric columns, a text or empty cell counting as 0.
C8_LoadKeepsRowsTotalNonNegative ==
    \A k \in Kinds :
        found[k] = "some" =>
            /\ halt # "load_error"
            /\ TableOf(k).bound =>
                  LET raw == Concat(disk[k])
                      t == TableOf(k).rows
                  IN  /\ Len(t) = Len(raw)
                      /\ \A i \in DOMAIN t :
                            /\ t[i].total >= 0
                            /\ t[i].total = SumSeq(t[i].cols)
                            /\ \A j \in DOMAIN raw[i].cells :
                                  raw[i].cells[j].k \in {"text", "empty"} => t[i].cols[j] = 0

====
